---- MODULE Spec2Model ----
(***************************************************************************)
(* Credential lifecycle of gmail_multi_user: CSRF state store              *)
(* (oauth/state.py), OAuth flow orchestration (oauth/manager.py), token    *)
(* lifecycle (tokens/manager.py) over the SQLite storage contract          *)
(* (storage/sqlite.py).                                                    *)
(*                                                                         *)
(* Every coroutine is a process.  A step of a process is one awaited       *)
(* storage or provider call together with the synchronous code that runs   *)
(* after it up to the next await; asyncio may run any other coroutine      *)
(* between two steps.  datetime.utcnow() reads the variable now.           *)
(***************************************************************************)
EXTENDS Integers, Sequences, FiniteSets, TLC

\* ---------------------------------------------------------------- bounds
NProcs == 2
MaxTime == 1
MaxTtl == 1
MaxBuffer == 1
MaxStates == 2
MaxExpiresIn == 1
MaxLen == 2
MaxSealed == 2

Procs == 1..NProcs
ExtUsers == {"u1", "u2"}
Emails == {"a@gmail.com", "b@gmail.com"}
\* The provider mints one access token per grant and one per refresh; a
\* refresh token may be missing from its answer (None, stored as "").
GrantedAccess(state) == "A" \o ToString(state)
RefreshedAccess == "A0"
RefreshTokens == {"", "R1"}
\* A refresh answer may carry a new refresh token (rotation) or none.
RotatedTokens == {"", "R2"}
RedirectUris == {"http://localhost:8000/oauth/callback"}
\* config.google.redirect_uri, and a redirect_uri a caller of get_auth_url
\* may pass instead.
config_redirect_uri == "http://localhost:8000/oauth/callback"
CallerRedirectUris == {config_redirect_uri, "https://app.example.com/oauth/callback"}
DefaultScopes == {"gmail.readonly"}
ExpiresIn == 1..MaxExpiresIn

VARIABLES
  now,             \* wall clock read by datetime.utcnow()
  ttl_seconds,     \* OAuthStateManager._ttl_seconds
  refresh_buffer,  \* TokenManager._refresh_buffer
  storage_up,      \* FALSE while the storage backend refuses every call
  users,           \* table users: internal id -> external_user_id
  oauth_states,    \* table oauth_states: state string -> row
  connections,     \* table gmail_connections: id -> row
  pr,              \* the running coroutines
  hist             \* history of the run, read only by the properties

vars == <<now, ttl_seconds, refresh_buffer, storage_up, users, oauth_states,
          connections, pr, hist>>

\* ------------------------------------------------------------ encryption
\* The configured Fernet key.
Key == 1

\* A Fernet token is opaque: only decrypt with the sealing key opens it.
NoCipher == [k |-> 0, pt |-> ""]

\* (Encrypt_plain: the text as it is, sealed by no key.)
Encrypt_plain(plaintext) == [k |-> 0, pt |-> plaintext]

Encrypt(plaintext) == [k |-> Key, pt |-> plaintext]

DecryptOk(ciphertext) == ciphertext.k = Key

Decrypt(ciphertext) == ciphertext.pt

\* A token sealed under a key this deployment does not hold (the configured
\* key was changed after the row was written): decrypt raises on it.
SealedElsewhere(plaintext) == [k |-> Key + 1, pt |-> plaintext]

\* Python truthiness of a str | None argument.
\* (Truthy_plaintext: the test made on the text that was sealed.)
Truthy_plaintext(ciphertext) == ciphertext.k # 0 /\ ciphertext.pt # ""

Truthy(ciphertext) == ciphertext.k # 0

\* ------------------------------------------------------------- results
NoResult == [kind |-> "none", exc |-> "", code |-> "", success |-> FALSE,
             connection_id |-> 0, error |-> "", value |-> ""]

Raised(exc, code) == [NoResult EXCEPT !.kind = "raise", !.exc = exc, !.code = code,
                                     !.error = code]

Returned(value) == [NoResult EXCEPT !.kind = "return", !.value = value]

CallbackResult(success, connection_id, error) ==
  [NoResult EXCEPT !.kind = "return", !.value = "CallbackResult",
                   !.success = success, !.connection_id = connection_id,
                   !.error = error]

\* ----------------------------------------------------------- processes
\* Facts about a call recorded when it reads storage, for the properties:
\*   first  the first validate_and_consume attempted on an issued state
\*   found  that read found the row;  live  the row had not expired
\*   after  a successful validate_and_consume on the state had returned
\*   failed a step of handle_callback raised;  pre  the id of the row that
\*          held (user, address) when handle_callback looked it up, or 0
\*   needed _needs_refresh was true;  has_rt  the stored refresh token
\*          decrypts to a non-empty string;  rt  the code _refresh_token raised
\*   was_inactive  the row read or updated had is_active = 0
\*   replaced  the update left the call's three values in the row found and
\*          added no row;  revoked  the rows for which a sweep met token_revoked
\*   undec  the stored refresh token could not be decrypted
\*   answer  what the provider answered to the call's refresh request
\*   deleted  the oauth_states rows the call's DELETE removed;  exact  they
\*          were the rows with expires_at < now, and no other
\*   sent   the code_verifier and redirect_uri exchange_code was called with
NoGhost == [first |-> FALSE, found |-> FALSE, live |-> FALSE, after |-> FALSE,
            failed |-> FALSE, pre |-> 0, needed |-> FALSE, has_rt |-> FALSE,
            rt |-> "", was_inactive |-> FALSE, replaced |-> FALSE,
            revoked |-> {}, undec |-> FALSE, answer |-> "",
            deleted |-> {}, exact |-> FALSE, sent |-> <<>>]

Idle == [op |-> "idle", pc |-> "idle", state |-> 0, ost |-> <<>>,
         user |-> "", uid |-> 0, redirect_uri |-> "",
         plaintext |-> <<>>, ciphertext |-> <<>>, key |-> 0, altered |-> "",
         code_verifier |-> <<>>, code_challenge |-> <<>>, candidate |-> <<>>,
         cid |-> 0, conn |-> <<>>, tok |-> <<>>, email |-> "",
         enc_a |-> NoCipher, enc_r |-> NoCipher, existing |-> <<>>,
         queue |-> <<>>, refreshed |-> {}, revoke |-> FALSE,
         vc |-> "", calls |-> 0, writes |-> 0, count |-> 0, at |-> 0,
         result |-> NoResult, g |-> NoGhost]

\* The coroutine ends: its locals are dropped, its arguments and outcome stay.
Done(rec, result) ==
  [Idle EXCEPT !.op = rec.op, !.pc = "done", !.state = rec.state,
               !.user = rec.user, !.cid = rec.cid, !.email = rec.email,
               !.revoke = rec.revoke, !.refreshed = rec.refreshed,
               !.vc = rec.vc, !.calls = rec.calls, !.writes = rec.writes,
               !.count = rec.count, !.g = rec.g, !.result = result]

\* p runs no coroutine: none was started, or the last one has ended (its
\* outcome stays readable until p starts the next).
Free(p) == pr[p].pc \in {"idle", "done"}

\* ------------------------------------------------------- storage: users
UserIds == DOMAIN users

\* SELECT * FROM users WHERE external_user_id = ?
user_by_external(ext) == {u \in DOMAIN users : users[u] = ext}

\* INSERT INTO users; uuid4 gives an id no row has.
insert_user(ext) == [u \in DOMAIN users \cup {hist.next_user} |->
                       IF u = hist.next_user THEN ext ELSE users[u]]

\* ------------------------------------------------- storage: connections
\* last_used_at of a row that was never used (SQL NULL).
Never == -1

get_connection(connection_id) ==
  IF connection_id \in DOMAIN connections
  THEN <<connections[connection_id]>> ELSE <<>>

ConnectionsOf(user_id, gmail_address) ==
  {c \in DOMAIN connections : /\ connections[c].user_id = user_id
                              /\ connections[c].gmail_address = gmail_address}

\* (get_connection_by_email: WHERE gmail_address = ? alone.)
get_connection_by_email(user_id, gmail_address) ==
  LET held == {c \in DOMAIN connections :
                 connections[c].gmail_address = gmail_address} IN
  IF held = {} THEN <<>> ELSE <<connections[CHOOSE c \in held : TRUE]>>

get_connection_by_user_and_email(user_id, gmail_address) ==
  IF ConnectionsOf(user_id, gmail_address) = {} THEN <<>>
  ELSE <<connections[CHOOSE c \in ConnectionsOf(user_id, gmail_address) : TRUE]>>

\* UNIQUE(user_id, gmail_address): the INSERT raises IntegrityError.
unique_violation_unchecked(user_id, gmail_address) == FALSE

unique_violation(user_id, gmail_address) ==
  ConnectionsOf(user_id, gmail_address) # {}

new_connection(user_id, gmail_address, access, refresh, expires_at, scopes) ==
  [id |-> hist.next_conn, user_id |-> user_id, gmail_address |-> gmail_address,
   access_token_encrypted |-> access, refresh_token_encrypted |-> refresh,
   token_expires_at |-> expires_at, scopes |-> scopes, is_active |-> TRUE,
   last_used_at |-> Never]

create_connection(row) ==
  [c \in DOMAIN connections \cup {row.id} |->
     IF c = row.id THEN row ELSE connections[c]]

\* The two UPDATE statements of update_connection_tokens on one row.
updated_tokens_reactivating(row, access, refresh, expires_at) ==
  [row EXCEPT !.access_token_encrypted = access,
              !.refresh_token_encrypted = IF Truthy(refresh) THEN refresh ELSE @,
              !.token_expires_at = expires_at,
              !.is_active = TRUE]

updated_tokens_dropped(row, access, refresh, expires_at) == row

updated_tokens_overwriting(row, access, refresh, expires_at) ==
  [row EXCEPT !.access_token_encrypted = access,
              !.refresh_token_encrypted = refresh,
              !.token_expires_at = expires_at]

updated_tokens(row, access, refresh, expires_at) ==
  [row EXCEPT !.access_token_encrypted = access,
              !.refresh_token_encrypted = IF Truthy(refresh) THEN refresh ELSE @,
              !.token_expires_at = expires_at]

update_connection_tokens(connection_id, access, refresh, expires_at) ==
  [connections EXCEPT ![connection_id] = updated_tokens(@, access, refresh, expires_at)]

update_connection_last_used(connection_id) ==
  IF connection_id \in DOMAIN connections
  THEN [connections EXCEPT ![connection_id].last_used_at = now]
  ELSE connections

deactivate_connection(connection_id) ==
  IF connection_id \in DOMAIN connections
  THEN [connections EXCEPT ![connection_id].is_active = FALSE]
  ELSE connections

\* SELECT ... WHERE is_active = 1 AND token_expires_at < ?
get_expiring_connections(expires_before) ==
  {c \in DOMAIN connections : /\ connections[c].is_active
                              /\ connections[c].token_expires_at < expires_before}

\* ------------------------------------------------ storage: oauth_states
get_oauth_state(state) ==
  IF state \in DOMAIN oauth_states THEN <<oauth_states[state]>> ELSE <<>>

delete_oauth_state_skipped(state) == oauth_states

delete_oauth_state(state) ==
  [s \in DOMAIN oauth_states \ {state} |-> oauth_states[s]]

create_oauth_state(row) ==
  [s \in DOMAIN oauth_states \cup {row.state} |->
     IF s = row.state THEN row ELSE oauth_states[s]]

ExpiredRows == {s \in DOMAIN oauth_states : oauth_states[s].expires_at < now}

cleanup_expired_states ==
  [s \in DOMAIN oauth_states \ ExpiredRows |-> oauth_states[s]]

\* OAuthState.is_expired
is_expired(row) == now > row.expires_at

\* secrets.token_urlsafe(32): a string no earlier call returned.
FreshState == hist.next_state

\* PKCE.generate(): a verifier no earlier call returned, and its challenge.
FreshVerifier == hist.next_state

ComputeChallenge(verifier) == <<"S256", verifier>>

\* OAuthStateManager.get_pkce_challenge: PKCE(code_verifier).code_challenge
get_pkce_challenge(code_verifier) == ComputeChallenge(code_verifier)

\* GoogleOAuthClient.build_auth_url: the query parameters of the URL.
build_auth_url(state, code_challenge, redirect_uri) ==
  [state |-> state, code_challenge |-> code_challenge,
   code_challenge_method |-> "S256", redirect_uri |-> redirect_uri]

\* ----------------------------------------------------------- exceptions
\* RETRIABLE_CODES holds the values of TOKEN_REFRESH_FAILED,
\* STORAGE_CONNECTION_FAILED and GMAIL_RATE_LIMIT.
RETRIABLE_CODES == {"TOKEN_002", "STORAGE_001", "GMAIL_005"}

\* GmailMCPError.is_retriable, on the code the exception was raised with.
is_retriable(code) == code \in RETRIABLE_CODES

\* --------------------------------------------------- exception handling
\* except AuthError / except Exception at the end of handle_callback.
handle_callback_except_auth_only(exc, code) ==
  IF exc = "AuthError" THEN CallbackResult(FALSE, 0, code) ELSE Raised(exc, code)

handle_callback_except(exc, code) == CallbackResult(FALSE, 0, code)

\* Where an exception raised inside a step of rec ends up.
Throw(rec, exc, code) ==
  IF rec.op = "handle_callback"
  THEN Done([rec EXCEPT !.g.failed = TRUE], handle_callback_except(exc, code))
  ELSE Done(rec, Raised(exc, code))

StorageDown(rec) == Throw(rec, "StorageError", "connection_failed")

SetProc(p, rec) == pr' = [pr EXCEPT ![p] = rec]

\* ------------------------------------------- TokenEncryption in detail
\* A str is a sequence of code points: "a", U+00E9 (two bytes in UTF-8),
\* U+2603 (three bytes) and the lone surrogate U+D800, which a str may hold
\* and UTF-8 cannot encode.
CodePoints == {97, 233, 9731, 55296}
Strings == UNION {[1..n -> CodePoints] : n \in 0..MaxLen}

IsSurrogate(c) == c >= 55296 /\ c <= 57343

\* str.encode("utf-8"): raises UnicodeEncodeError on a surrogate.
Encodable(s) == \A i \in 1..Len(s) : ~IsSurrogate(s[i])

utf8_char(c) ==
  IF c < 128 THEN <<c>>
  ELSE IF c < 2048 THEN <<192 + (c \div 64), 128 + (c % 64)>>
  ELSE <<224 + (c \div 4096), 128 + ((c \div 64) % 64), 128 + (c % 64)>>

RECURSIVE utf8_encode(_)
utf8_encode(s) ==
  IF s = <<>> THEN <<>> ELSE utf8_char(Head(s)) \o utf8_encode(Tail(s))

\* bytes.decode("utf-8"); -1 stands for UnicodeDecodeError.
RECURSIVE utf8_decode(_)
utf8_decode(b) ==
  IF b = <<>> THEN <<>>
  ELSE IF b[1] < 128 THEN <<b[1]>> \o utf8_decode(Tail(b))
  ELSE IF b[1] \div 32 = 6 /\ Len(b) >= 2
  THEN <<(b[1] % 32) * 64 + (b[2] % 64)>> \o utf8_decode(SubSeq(b, 3, Len(b)))
  ELSE IF b[1] \div 16 = 14 /\ Len(b) >= 3
  THEN <<(b[1] % 16) * 4096 + (b[2] % 64) * 64 + (b[3] % 64)>>
       \o utf8_decode(SubSeq(b, 4, Len(b)))
  ELSE <<-1>>

\* A key other than the configured one (TokenEncryption.generate_key()).
OtherKey == Key + 1

\* Fernet.encrypt: version, timestamp, the 128-bit IV from os.urandom (one
\* no earlier call drew), the AES-CBC ciphertext of data under the key, and
\* the HMAC-SHA256 of all of it under the key, in URL-safe base64.
\* (fernet_encrypt_fixed_iv: the same IV in every token.)
fernet_encrypt_fixed_iv(k, iv, data) ==
  [k |-> k, iv |-> 0, data |-> data, hmac |-> k, base64 |-> TRUE]

fernet_encrypt(k, iv, data) ==
  [k |-> k, iv |-> iv, data |-> data, hmac |-> k, base64 |-> TRUE]

\* Fernet.decrypt: base64-decode, verify the HMAC under the key, decrypt;
\* <<>> stands for InvalidToken.
\* (fernet_decrypt_unauthenticated: the HMAC is not verified.)
fernet_decrypt_unauthenticated(k, token) ==
  IF ~token.base64 \/ token.k # k THEN <<>> ELSE <<token.data>>

fernet_decrypt(k, token) ==
  IF ~token.base64 \/ token.hmac # k \/ token.k # k THEN <<>>
  ELSE <<token.data>>

\* Other characters in the last five places of the ciphertext string: the
\* places hold the end of the HMAC, so its bytes change ("hmac"), or what
\* is left is no base64 at all ("base64").
Alterations == {"none", "hmac", "base64"}

AlterLastFive(token, how) ==
  IF how = "hmac" THEN [token EXCEPT !.hmac = 0]
  ELSE IF how = "base64" THEN [token EXCEPT !.base64 = FALSE]
  ELSE token

\* TokenEncryption.encrypt
TokenEncryption_encrypt(k, iv, plaintext) ==
  IF ~Encodable(plaintext) THEN Raised("TokenError", "encryption_error")
  ELSE Returned(fernet_encrypt(k, iv, utf8_encode(plaintext)))

\* TokenEncryption.decrypt
TokenEncryption_decrypt(k, ciphertext) ==
  LET opened == fernet_decrypt(k, ciphertext) IN
  IF opened = <<>> THEN Raised("TokenError", "encryption_error")
  ELSE LET text == utf8_decode(opened[1]) IN
       IF \E i \in 1..Len(text) : text[i] = -1
       THEN Raised("TokenError", "encryption_error")
       ELSE Returned(text)

\* encryptor.encrypt(plaintext) with the configured key.
EncryptCall(p, plaintext) ==
  /\ Free(p)
  /\ Len(hist.sealed) < MaxSealed
  /\ LET out == TokenEncryption_encrypt(Key, hist.next_iv, plaintext) IN
     /\ SetProc(p, [Idle EXCEPT !.op = "encrypt", !.pc = "done",
                                !.plaintext = plaintext, !.key = Key,
                                !.result = out])
     /\ hist' = IF out.kind = "return"
                THEN [hist EXCEPT !.next_iv = @ + 1,
                                  !.sealed = Append(@, [plaintext |-> plaintext,
                                                        ciphertext |-> out.value])]
                ELSE hist
  /\ UNCHANGED <<now, ttl_seconds, refresh_buffer, storage_up, users,
                 oauth_states, connections>>

\* TokenEncryption(k).decrypt of the i-th ciphertext produced so far, as it
\* is or with its last five characters altered.
DecryptCall(p, i, k, how) ==
  /\ Free(p)
  /\ i \in 1..Len(hist.sealed)
  /\ LET ciphertext == AlterLastFive(hist.sealed[i].ciphertext, how) IN
     SetProc(p, [Idle EXCEPT !.op = "decrypt", !.pc = "done",
                             !.plaintext = hist.sealed[i].plaintext,
                             !.ciphertext = <<ciphertext>>,
                             !.key = k, !.altered = how,
                             !.result = TokenEncryption_decrypt(k, ciphertext)])
  /\ UNCHANGED <<now, ttl_seconds, refresh_buffer, storage_up, users,
                 oauth_states, connections, hist>>

\* ------------------------------------------------------ PKCE in detail
MIN_VERIFIER_LENGTH == 43
MAX_VERIFIER_LENGTH == 128

\* [A-Z] / [a-z] / [0-9] / "-" / "." / "_" / "~", as code points.
allowed == (65..90) \cup (97..122) \cup (48..57) \cup {45, 46, 95, 126}

Repeat(c, n) == [i \in 1..n |-> c]

\* Strings offered as verifiers: of the least and the greatest length, one
\* too short, one too long, one with "!" and one with U+00E9 (not ASCII);
\* among the valid ones, pairs that differ in one character or in length.
Verifiers ==
  {Repeat(65, MIN_VERIFIER_LENGTH), Repeat(66, MIN_VERIFIER_LENGTH),
   Repeat(65, MIN_VERIFIER_LENGTH - 1) \o <<126>>,
   Repeat(65, MIN_VERIFIER_LENGTH + 1), Repeat(126, MAX_VERIFIER_LENGTH),
   Repeat(65, MIN_VERIFIER_LENGTH - 1), Repeat(65, MAX_VERIFIER_LENGTH + 1),
   Repeat(65, MIN_VERIFIER_LENGTH - 1) \o <<33>>,
   Repeat(65, MIN_VERIFIER_LENGTH - 1) \o <<233>>}

\* PKCE._validate_verifier: TRUE when it raises no ValueError.
_validate_verifier(code_verifier) ==
  /\ Len(code_verifier) >= MIN_VERIFIER_LENGTH
  /\ Len(code_verifier) <= MAX_VERIFIER_LENGTH
  /\ \A i \in 1..Len(code_verifier) : code_verifier[i] \in allowed

\* hashlib.sha256(...).digest(): taken as free of collisions.
sha256(bytes) == [sha256 |-> bytes]

\* base64.urlsafe_b64encode of the 32 bytes: 43 characters and one "=".
urlsafe_b64encode(digest) == [base64 |-> digest, padding |-> 1]

\* PKCE._compute_challenge; <<>> stands for the UnicodeEncodeError of
\* code_verifier.encode("ascii").
\* (_compute_challenge_of_length: a digest of the length alone.)
_compute_challenge_of_length(code_verifier) ==
  <<[urlsafe_b64encode(sha256(Len(code_verifier))) EXCEPT !.padding = 0]>>

_compute_challenge(code_verifier) ==
  IF \E i \in 1..Len(code_verifier) : code_verifier[i] >= 128 THEN <<>>
  ELSE <<[urlsafe_b64encode(sha256(code_verifier)) EXCEPT !.padding = 0]>>

\* PKCE.verify: try ... compare_digest(computed, code_challenge)
\* except Exception: return False
verify(code_verifier, code_challenge) ==
  LET computed == _compute_challenge(code_verifier) IN
  IF computed = <<>> THEN FALSE ELSE computed[1] = code_challenge

\* PKCE(code_verifier)
PkceNew(p, code_verifier) ==
  /\ Free(p)
  /\ SetProc(p, IF _validate_verifier(code_verifier)
                THEN [Idle EXCEPT !.op = "PKCE", !.pc = "done",
                        !.code_verifier = code_verifier,
                        !.code_challenge = _compute_challenge(code_verifier)[1],
                        !.result = Returned("PKCE")]
                ELSE [Idle EXCEPT !.op = "PKCE", !.pc = "done",
                        !.candidate = code_verifier,
                        !.result = Raised("ValueError", "code_verifier")])
  /\ UNCHANGED <<now, ttl_seconds, refresh_buffer, storage_up, users,
                 oauth_states, connections, hist>>

\* PKCE.verify(candidate, pkce.code_challenge) for the instance p holds.
PkceVerify(p, candidate) ==
  /\ Free(p)
  /\ pr[p].op \in {"PKCE", "verify"}
  /\ pr[p].code_verifier # <<>>
  /\ SetProc(p, [pr[p] EXCEPT !.op = "verify", !.candidate = candidate,
                    !.result = Returned(verify(candidate, pr[p].code_challenge))])
  /\ UNCHANGED <<now, ttl_seconds, refresh_buffer, storage_up, users,
                 oauth_states, connections, hist>>

\* ------------------------------------------------- OAuthStateManager
\* The run issues at most MaxStates state strings.
StateBudget ==
  hist.next_state + Cardinality({q \in Procs : pr[q].pc = "gau_insert_user"})
    <= MaxStates

\* create_state up to the await of the insert: token, PKCE pair, expiry.
create_state_begin(rec, user_id, redirect_uri) ==
  [rec EXCEPT !.pc = "cs_insert",
              !.state = FreshState,
              !.ost = <<[state |-> FreshState, user_id |-> user_id,
                         redirect_uri |-> redirect_uri,
                         scopes |-> DefaultScopes,
                         code_verifier |-> FreshVerifier,
                         expires_at |-> now + ttl_seconds]>>]

CreateStateBegin(p, user_id, redirect_uri) ==
  /\ Free(p)
  /\ StateBudget
  /\ SetProc(p, create_state_begin([Idle EXCEPT !.op = "create_state"],
                                   user_id, redirect_uri))
  /\ hist' = [hist EXCEPT !.next_state = @ + 1]
  /\ UNCHANGED <<now, ttl_seconds, refresh_buffer, storage_up, users,
                 oauth_states, connections>>

\* The awaited INSERT INTO oauth_states, and the return to the caller.
CreateStateInsert(p) ==
  /\ pr[p].pc = "cs_insert"
  /\ LET row == pr[p].ost[1] IN
     IF ~storage_up
     THEN /\ SetProc(p, StorageDown(pr[p]))
          /\ UNCHANGED <<oauth_states, hist>>
     ELSE IF row.user_id \notin UserIds
     THEN /\ SetProc(p, Throw(pr[p], "IntegrityError", "foreign_key"))
          /\ UNCHANGED <<oauth_states, hist>>
     ELSE /\ oauth_states' = create_oauth_state(row)
          /\ hist' = [hist EXCEPT
                 !.issued = @ \cup {row.state},
                 !.issued_to = @ \cup {[state |-> row.state, user |-> pr[p].user,
                                         row |-> row]},
                 !.auth_urls = IF pr[p].op = "get_auth_url"
                               THEN @ \cup {build_auth_url(
                                      row.state,
                                      get_pkce_challenge(row.code_verifier),
                                      pr[p].redirect_uri)}
                               ELSE @]
          /\ SetProc(p, Done(pr[p], Returned(IF pr[p].op = "get_auth_url"
                                             THEN "AuthUrlResult"
                                             ELSE "OAuthState")))
  /\ UNCHANGED <<now, ttl_seconds, refresh_buffer, storage_up, users, connections>>

\* What runs after validate_and_consume returns oauth_state.
vc_return(rec) ==
  IF rec.op = "handle_callback"
  THEN [rec EXCEPT !.pc = "hc_exchange", !.vc = "ok"]
  ELSE Done([rec EXCEPT !.vc = "ok"], Returned("OAuthState"))

vc_raise(rec, code) == Throw([rec EXCEPT !.vc = code], "AuthError", code)

\* validate_and_consume: the awaited get_oauth_state and the two tests.
validate_and_consume_get(rec) ==
  LET found == get_oauth_state(rec.state) IN
  IF found = <<>> THEN vc_raise(rec, "invalid_state")
  ELSE IF is_expired(found[1])
  THEN [rec EXCEPT !.pc = "vc_delete_expired", !.ost = found]
  ELSE [rec EXCEPT !.pc = "vc_delete", !.ost = found]

\* validate_and_consume: the awaited delete_oauth_state and what follows.
validate_and_consume_delete(rec) ==
  IF rec.pc = "vc_delete_expired" THEN vc_raise(rec, "state_expired")
  ELSE vc_return(rec)

VcGhost(state) ==
  [NoGhost EXCEPT !.first = state \in hist.issued /\ state \notin hist.attempted,
                  !.found = state \in DOMAIN oauth_states,
                  !.live = state \in DOMAIN oauth_states
                           /\ ~is_expired(oauth_states[state]),
                  !.after = state \in hist.consumed]

VcBegin(p, op, state) ==
  /\ Free(p)
  /\ LET rec == [Idle EXCEPT !.op = op, !.state = state, !.g = VcGhost(state)] IN
     IF ~storage_up THEN SetProc(p, StorageDown(rec))
     ELSE SetProc(p, validate_and_consume_get(rec))
  /\ hist' = [hist EXCEPT !.attempted =
                 IF state \in hist.issued THEN @ \cup {state} ELSE @]
  /\ UNCHANGED <<now, ttl_seconds, refresh_buffer, storage_up, users,
                 oauth_states, connections>>

ValidateAndConsumeGet(p, state) == VcBegin(p, "validate_and_consume", state)

ValidateAndConsumeDelete(p) ==
  /\ pr[p].pc \in {"vc_delete", "vc_delete_expired"}
  /\ IF ~storage_up
     THEN /\ SetProc(p, StorageDown(pr[p]))
          /\ UNCHANGED <<oauth_states, hist>>
     ELSE /\ oauth_states' = delete_oauth_state(pr[p].state)
          /\ SetProc(p, validate_and_consume_delete(pr[p]))
          /\ hist' = [hist EXCEPT !.consumed =
                         IF pr[p].pc = "vc_delete" THEN @ \cup {pr[p].state} ELSE @]
  /\ UNCHANGED <<now, ttl_seconds, refresh_buffer, storage_up, users, connections>>

\* validate_state from the awaited get_oauth_state to its next await.
validate_state_get_consuming(rec, found) ==
  IF found = <<>> THEN Done(rec, Returned("None"))
  ELSE [rec EXCEPT !.pc = "vs_delete", !.ost = found]

validate_state_get(rec, found) ==
  IF found = <<>> THEN Done(rec, Returned("None"))
  ELSE IF is_expired(found[1])
  THEN [rec EXCEPT !.pc = "vs_delete", !.ost = found]
  ELSE Done([rec EXCEPT !.ost = found], Returned("OAuthState"))

\* validate_state: the awaited get_oauth_state and the two tests.
ValidateStateGet(p, state) ==
  /\ Free(p)
  /\ storage_up
  /\ SetProc(p, validate_state_get(
                  [Idle EXCEPT !.op = "validate_state", !.state = state,
                               !.g = VcGhost(state)],
                  get_oauth_state(state)))
  /\ UNCHANGED <<now, ttl_seconds, refresh_buffer, storage_up, users,
                 oauth_states, connections, hist>>

\* validate_state: the awaited delete of the expired row.
ValidateStateDelete(p) ==
  /\ pr[p].pc = "vs_delete"
  /\ storage_up
  /\ oauth_states' = delete_oauth_state(pr[p].state)
  /\ SetProc(p, Done([pr[p] EXCEPT !.writes = @ + 1], Returned("None")))
  /\ UNCHANGED <<now, ttl_seconds, refresh_buffer, storage_up, users,
                 connections, hist>>

\* What a cleanup's DELETE did, for the properties: the rows it removed,
\* and whether they were the rows with expires_at < at and no other.
CleanupGhost(at) ==
  [NoGhost EXCEPT
     !.deleted = DOMAIN oauth_states \ DOMAIN oauth_states',
     !.exact = \A s \in DOMAIN oauth_states :
                 s \in DOMAIN oauth_states' <=> ~(oauth_states[s].expires_at < at)]

\* cleanup_expired on SQLiteBackend: one DELETE ... WHERE expires_at < now;
\* returns cursor.rowcount.
CleanupExpired(p) ==
  /\ Free(p)
  /\ storage_up
  /\ oauth_states' = cleanup_expired_states
  /\ SetProc(p, Done([Idle EXCEPT !.op = "cleanup_expired",
                                  !.count = Cardinality(ExpiredRows),
                                  !.g = CleanupGhost(now)],
                     Returned("count")))
  /\ UNCHANGED <<now, ttl_seconds, refresh_buffer, storage_up, users,
                 connections, hist>>

\* cleanup_expired on SupabaseBackend: the request that counts the rows
\* with expires_at < now ...
CleanupExpiredCount(p) ==
  /\ Free(p)
  /\ storage_up
  /\ SetProc(p, [Idle EXCEPT !.op = "cleanup_expired", !.pc = "ce_delete",
                             !.at = now,
                             !.count = Cardinality(ExpiredRows)])
  /\ UNCHANGED <<now, ttl_seconds, refresh_buffer, storage_up, users,
                 oauth_states, connections, hist>>

\* ... and the request that deletes them; the count taken before is what
\* the call returns.
CleanupExpiredDelete(p) ==
  /\ pr[p].pc = "ce_delete"
  /\ storage_up
  /\ oauth_states' = [s \in {t \in DOMAIN oauth_states :
                               ~(oauth_states[t].expires_at < pr[p].at)}
                       |-> oauth_states[s]]
  /\ SetProc(p, Done([pr[p] EXCEPT !.g = CleanupGhost(pr[p].at)],
                     Returned("count")))
  /\ UNCHANGED <<now, ttl_seconds, refresh_buffer, storage_up, users,
                 connections, hist>>

\* ------------------------------------------------------- OAuthManager
\* get_auth_url: the SELECT of get_or_create_user; for a known user the
\* code runs on into create_state up to its awaited insert.
GetAuthUrlSelectUser(p, ext, redirect_uri) ==
  /\ Free(p)
  /\ StateBudget
  /\ LET rec == [Idle EXCEPT !.op = "get_auth_url", !.user = ext,
                             !.redirect_uri = redirect_uri]
         found == user_by_external(ext) IN
     IF ~storage_up
     THEN SetProc(p, StorageDown(rec)) /\ UNCHANGED hist
     ELSE IF found = {}
     THEN SetProc(p, [rec EXCEPT !.pc = "gau_insert_user"]) /\ UNCHANGED hist
     ELSE /\ SetProc(p, create_state_begin(
                          [rec EXCEPT !.uid = CHOOSE u \in found : TRUE],
                          CHOOSE u \in found : TRUE,
                          redirect_uri))
          /\ hist' = [hist EXCEPT !.next_state = @ + 1]
  /\ UNCHANGED <<now, ttl_seconds, refresh_buffer, storage_up, users,
                 oauth_states, connections>>

\* get_auth_url: the INSERT of get_or_create_user (external_user_id is
\* UNIQUE, and the IntegrityError is not caught), then create_state.
GetAuthUrlInsertUser(p) ==
  /\ pr[p].pc = "gau_insert_user"
  /\ IF ~storage_up
     THEN SetProc(p, StorageDown(pr[p])) /\ UNCHANGED <<users, hist>>
     ELSE IF user_by_external(pr[p].user) # {}
     THEN /\ SetProc(p, Throw(pr[p], "IntegrityError", "unique_external_user_id"))
          /\ UNCHANGED <<users, hist>>
     ELSE /\ users' = insert_user(pr[p].user)
          /\ SetProc(p, create_state_begin([pr[p] EXCEPT !.uid = hist.next_user],
                                           hist.next_user,
                                           pr[p].redirect_uri))
          /\ hist' = [hist EXCEPT !.next_user = @ + 1, !.next_state = @ + 1]
  /\ UNCHANGED <<now, ttl_seconds, refresh_buffer, storage_up, oauth_states,
                 connections>>

\* handle_callback: validate_and_consume's awaited get_oauth_state.
HandleCallbackGetState(p, state) == VcBegin(p, "handle_callback", state)

\* handle_callback: what exchange_code is called with, from the row that
\* validate_and_consume returned.
exchange_code_request_unbound(oauth_state) ==
  [code_verifier |-> 0, redirect_uri |-> config_redirect_uri]

exchange_code_request(oauth_state) ==
  [code_verifier |-> oauth_state.code_verifier,
   redirect_uri |-> oauth_state.redirect_uri]

\* handle_callback: the awaited exchange_code.  The provider answers with
\* tokens, refuses (AuthError) or the call fails otherwise (Exception).
HandleCallbackExchange(p, outcome, access, refresh, expires_in) ==
  /\ pr[p].pc = "hc_exchange"
  /\ IF outcome = "ok"
     THEN SetProc(p, [pr[p] EXCEPT !.pc = "hc_user_info",
                        !.g.sent = <<exchange_code_request(pr[p].ost[1])>>,
                        !.tok = <<[access_token |-> access,
                                   refresh_token |-> refresh,
                                   expires_at |-> now + expires_in]>>])
     ELSE SetProc(p, Throw(pr[p], outcome, "oauth_failed"))
  /\ UNCHANGED <<now, ttl_seconds, refresh_buffer, storage_up, users,
                 oauth_states, connections, hist>>

\* handle_callback: the awaited get_user_info, then both encryptions.
\* outcome "AuthError" is get_user_info failing; "TokenError" is
\* TokenEncryption.encrypt raising (the token text cannot be encoded).
HandleCallbackUserInfo(p, outcome, email) ==
  /\ pr[p].pc = "hc_user_info"
  /\ IF outcome = "ok"
     THEN SetProc(p, [pr[p] EXCEPT !.pc = "hc_lookup", !.email = email,
                        !.enc_a = Encrypt(pr[p].tok[1].access_token),
                        !.enc_r = Encrypt(pr[p].tok[1].refresh_token)])
     ELSE IF outcome = "TokenError"
     THEN SetProc(p, Throw(pr[p], "TokenError", "encryption_error"))
     ELSE SetProc(p, Throw(pr[p], outcome, "oauth_failed"))
  /\ UNCHANGED <<now, ttl_seconds, refresh_buffer, storage_up, users,
                 oauth_states, connections, hist>>

\* handle_callback: the awaited get_connection_by_user_and_email.
HandleCallbackLookup(p) ==
  /\ pr[p].pc = "hc_lookup"
  /\ LET existing == get_connection_by_user_and_email(pr[p].ost[1].user_id,
                                                      pr[p].email) IN
     IF ~storage_up THEN SetProc(p, StorageDown(pr[p]))
     ELSE SetProc(p, [pr[p] EXCEPT
            !.pc = IF existing = <<>> THEN "hc_create" ELSE "hc_update",
            !.existing = existing,
            !.g.pre = LET held == {c \in DOMAIN connections :
                                     /\ connections[c].user_id = pr[p].ost[1].user_id
                                     /\ connections[c].gmail_address = pr[p].email}
                      IN IF held = {} THEN 0 ELSE CHOOSE c \in held : TRUE])
  /\ UNCHANGED <<now, ttl_seconds, refresh_buffer, storage_up, users,
                 oauth_states, connections, hist>>

\* handle_callback: the awaited update_connection_tokens on the row found.
HandleCallbackUpdate(p) ==
  /\ pr[p].pc = "hc_update"
  /\ LET id == pr[p].existing[1].id IN
     IF ~storage_up
     THEN SetProc(p, StorageDown(pr[p])) /\ UNCHANGED connections
     ELSE IF id \notin DOMAIN connections
     THEN SetProc(p, Throw(pr[p], "StorageError", "query_failed"))
          /\ UNCHANGED connections
     ELSE /\ connections' = update_connection_tokens(id, pr[p].enc_a, pr[p].enc_r,
                                                     pr[p].tok[1].expires_at)
          /\ SetProc(p, [pr[p] EXCEPT !.pc = "hc_get_user", !.cid = id,
                            !.writes = @ + 1,
                            !.g.was_inactive = ~connections[id].is_active,
                            !.g.replaced =
                               /\ DOMAIN connections' = DOMAIN connections
                               /\ connections'[id].access_token_encrypted = pr[p].enc_a
                               /\ connections'[id].refresh_token_encrypted = pr[p].enc_r
                               /\ connections'[id].token_expires_at
                                    = pr[p].tok[1].expires_at])
  /\ hist' = [hist EXCEPT !.reauthorized =
                 IF storage_up /\ pr[p].existing[1].id \in DOMAIN connections
                    /\ ~connections[pr[p].existing[1].id].is_active
                 THEN @ \cup {pr[p].existing[1].id} ELSE @]
  /\ UNCHANGED <<now, ttl_seconds, refresh_buffer, storage_up, users,
                 oauth_states>>

\* handle_callback: the awaited create_connection.
HandleCallbackCreate(p) ==
  /\ pr[p].pc = "hc_create"
  /\ LET st == pr[p].ost[1] IN
     IF ~storage_up
     THEN SetProc(p, StorageDown(pr[p])) /\ UNCHANGED <<connections, hist>>
     ELSE IF unique_violation(st.user_id, pr[p].email)
     THEN /\ SetProc(p, Throw(pr[p], "StorageError", "query_failed"))
          /\ UNCHANGED <<connections, hist>>
     ELSE /\ connections' = create_connection(
                 new_connection(st.user_id, pr[p].email, pr[p].enc_a, pr[p].enc_r,
                                pr[p].tok[1].expires_at, st.scopes))
          /\ SetProc(p, [pr[p] EXCEPT !.pc = "hc_get_user", !.writes = @ + 1,
                                      !.cid = hist.next_conn])
          /\ hist' = [hist EXCEPT !.next_conn = @ + 1]
  /\ UNCHANGED <<now, ttl_seconds, refresh_buffer, storage_up, users,
                 oauth_states>>

\* handle_callback: the awaited get_user_by_id and the CallbackResult.
HandleCallbackGetUser(p) ==
  /\ pr[p].pc = "hc_get_user"
  /\ IF ~storage_up THEN SetProc(p, StorageDown(pr[p]))
     ELSE SetProc(p, Done(pr[p], CallbackResult(TRUE, pr[p].cid, "")))
  /\ UNCHANGED <<now, ttl_seconds, refresh_buffer, storage_up, users,
                 oauth_states, connections, hist>>

\* disconnect: what the try around decrypt and revoke_token leaves behind.
\* outcome is "ok" (revoked), "refused" (revoke_token returned False),
\* "raises" (revoke_token raised) or "undecryptable" (decrypt raised);
\* except Exception swallows the last two.
RevokeOutcomes == {"ok", "refused", "raises"}

disconnect_after_revoke_raising(rec, outcome) ==
  IF outcome \in {"raises", "undecryptable"}
  THEN Throw([rec EXCEPT !.g.rt = outcome], "Exception", outcome)
  ELSE [rec EXCEPT !.pc = "dc_deactivate", !.g.rt = outcome]

disconnect_after_revoke(rec, outcome) ==
  [rec EXCEPT !.pc = "dc_deactivate", !.g.rt = outcome]

\* disconnect from the awaited get_connection to its next await; with
\* revoke_google_access the refresh token is decrypted inside the try.
disconnect_get(rec, found) ==
  IF found = <<>> THEN Done(rec, Returned("False"))
  ELSE IF ~rec.revoke THEN [rec EXCEPT !.pc = "dc_deactivate", !.conn = found]
  ELSE IF DecryptOk(found[1].refresh_token_encrypted)
  THEN [rec EXCEPT !.pc = "dc_revoke", !.conn = found]
  ELSE disconnect_after_revoke([rec EXCEPT !.conn = found], "undecryptable")

DisconnectGet(p, connection_id, revoke_google_access) ==
  /\ Free(p)
  /\ storage_up
  /\ SetProc(p, disconnect_get(
                  [Idle EXCEPT !.op = "disconnect", !.cid = connection_id,
                               !.revoke = revoke_google_access,
                               !.g.found = connection_id \in DOMAIN connections],
                  get_connection(connection_id)))
  /\ UNCHANGED <<now, ttl_seconds, refresh_buffer, storage_up, users,
                 oauth_states, connections, hist>>

\* gmail_disconnect / disconnect_impl: its own awaited get_connection; an
\* absent connection gives success = False.
GmailDisconnectGet(p, connection_id, revoke_google_access) ==
  /\ Free(p)
  /\ storage_up
  /\ LET rec == [Idle EXCEPT !.op = "gmail_disconnect", !.cid = connection_id,
                             !.revoke = revoke_google_access,
                             !.g.found = connection_id \in DOMAIN connections] IN
     IF get_connection(connection_id) = <<>>
     THEN SetProc(p, Done(rec, Returned("False")))
     ELSE SetProc(p, [rec EXCEPT !.pc = "gd_disconnect"])
  /\ UNCHANGED <<now, ttl_seconds, refresh_buffer, storage_up, users,
                 oauth_states, connections, hist>>

\* disconnect_impl: the awaited OAuthManager.disconnect, whose result
\* becomes the tool's success.
GmailDisconnectCall(p) ==
  /\ pr[p].pc = "gd_disconnect"
  /\ storage_up
  /\ SetProc(p, disconnect_get(pr[p], get_connection(pr[p].cid)))
  /\ UNCHANGED <<now, ttl_seconds, refresh_buffer, storage_up, users,
                 oauth_states, connections, hist>>

\* disconnect: the awaited revoke_token.
DisconnectRevoke(p, outcome) ==
  /\ pr[p].pc = "dc_revoke"
  /\ SetProc(p, disconnect_after_revoke(pr[p], outcome))
  /\ UNCHANGED <<now, ttl_seconds, refresh_buffer, storage_up, users,
                 oauth_states, connections, hist>>

\* disconnect: the awaited deactivate_connection.
DisconnectDeactivate(p) ==
  /\ pr[p].pc = "dc_deactivate"
  /\ storage_up
  /\ connections' = deactivate_connection(pr[p].cid)
  /\ SetProc(p, Done([pr[p] EXCEPT !.writes = @ + 1], Returned("True")))
  /\ hist' = [hist EXCEPT !.disconnected = @ \cup {pr[p].cid}]
  /\ UNCHANGED <<now, ttl_seconds, refresh_buffer, storage_up, users,
                 oauth_states>>

\* ------------------------------------------------------- TokenManager
_needs_refresh_strict(row) == now + refresh_buffer > row.token_expires_at

_needs_refresh(row) == now + refresh_buffer >= row.token_expires_at

\* GoogleOAuthClient.refresh_access_token: the TokenError code for a
\* provider answer that is not a 200.
refresh_error_code_flat(answer) == "refresh_failed"

refresh_error_code(answer) ==
  IF answer = "invalid_grant" THEN "token_revoked" ELSE "refresh_failed"

ProviderAnswers == {"ok", "invalid_grant", "timeout", "http_5xx"}

\* A TokenError leaving _refresh_token: refresh_expiring_tokens catches it
\* and deactivates; the other callers let it through.
refresh_raise(rec, code) ==
  IF rec.op = "refresh_expiring_tokens"
  THEN [rec EXCEPT !.pc = "sw_deactivate", !.g.rt = code,
                   !.g.revoked = IF code = "token_revoked"
                                 THEN @ \cup {rec.conn[1].id} ELSE @]
  ELSE Throw([rec EXCEPT !.g.rt = code], "TokenError", code)

\* _refresh_token up to the awaited provider call.
refresh_begin(rec, row) ==
  LET r == [rec EXCEPT !.conn = <<row>>, !.g.answer = ""] IN
  IF ~DecryptOk(row.refresh_token_encrypted) THEN refresh_raise(r, "encryption_error")
  ELSE IF Decrypt(row.refresh_token_encrypted) = "" THEN refresh_raise(r, "needs_reauth")
  ELSE [r EXCEPT !.pc = "rf_provider"]

\* The for loop of refresh_expiring_tokens, up to its next await.
sweep_continue(rec) ==
  IF rec.queue = <<>> THEN Done(rec, Returned("refreshed"))
  ELSE refresh_begin([rec EXCEPT !.queue = Tail(@)], Head(rec.queue))

\* What runs after _refresh_token returns the updated row.
refresh_return(rec, row) ==
  LET r == [rec EXCEPT !.conn = <<row>>] IN
  IF rec.op = "get_valid_token" THEN [r EXCEPT !.pc = "gvt_touch"]
  ELSE IF rec.op = "refresh_token" THEN Done(r, Returned("ValidToken"))
  ELSE sweep_continue([r EXCEPT !.refreshed = @ \cup {row.id}])

ConnGhost(connection_id) ==
  LET found == get_connection(connection_id) IN
  [NoGhost EXCEPT
     !.found = found # <<>>,
     !.was_inactive = found # <<>> /\ ~found[1].is_active,
     !.after = connection_id \in hist.reauthorized,
     !.needed = found # <<>>
                /\ now + refresh_buffer >= found[1].token_expires_at,
     !.has_rt = /\ found # <<>>
                /\ found[1].refresh_token_encrypted.k = Key
                /\ found[1].refresh_token_encrypted.pt # "",
     !.undec = found # <<>> /\ found[1].refresh_token_encrypted.k # Key]

\* get_valid_token from the awaited get_connection to the next await.
get_valid_token_unchecked(rec, found) ==
  IF found = <<>> THEN Throw(rec, "ConnectionNotFoundError", "connection_not_found")
  ELSE IF _needs_refresh(found[1]) THEN refresh_begin(rec, found[1])
  ELSE [rec EXCEPT !.pc = "gvt_touch", !.conn = found]

get_valid_token_get(rec, found) ==
  IF found = <<>> THEN Throw(rec, "ConnectionNotFoundError", "connection_not_found")
  ELSE IF ~found[1].is_active
  THEN Throw(rec, "ConnectionInactiveError", "connection_inactive")
  ELSE IF _needs_refresh(found[1]) THEN refresh_begin(rec, found[1])
  ELSE [rec EXCEPT !.pc = "gvt_touch", !.conn = found]

GetValidTokenGet(p, connection_id) ==
  /\ Free(p)
  /\ storage_up
  /\ SetProc(p, get_valid_token_get(
                  [Idle EXCEPT !.op = "get_valid_token", !.cid = connection_id,
                               !.g = ConnGhost(connection_id)],
                  get_connection(connection_id)))
  /\ UNCHANGED <<now, ttl_seconds, refresh_buffer, storage_up, users,
                 oauth_states, connections, hist>>

\* get_valid_token: decrypt, the awaited update_connection_last_used, return.
GetValidTokenTouch(p) ==
  /\ pr[p].pc = "gvt_touch"
  /\ storage_up
  /\ IF DecryptOk(pr[p].conn[1].access_token_encrypted)
     THEN /\ connections' = update_connection_last_used(pr[p].cid)
          /\ SetProc(p, Done([pr[p] EXCEPT !.writes = @ + 1], Returned("ValidToken")))
     ELSE /\ SetProc(p, Throw(pr[p], "TokenError", "encryption_error"))
          /\ UNCHANGED connections
  /\ UNCHANGED <<now, ttl_seconds, refresh_buffer, storage_up, users,
                 oauth_states, hist>>

\* refresh_token: the awaited get_connection, then _refresh_token.
RefreshTokenGet(p, connection_id) ==
  /\ Free(p)
  /\ storage_up
  /\ LET rec == [Idle EXCEPT !.op = "refresh_token", !.cid = connection_id,
                             !.g = ConnGhost(connection_id)]
         found == get_connection(connection_id) IN
     IF found = <<>>
     THEN SetProc(p, Throw(rec, "ConnectionNotFoundError", "connection_not_found"))
     ELSE SetProc(p, refresh_begin(rec, found[1]))
  /\ UNCHANGED <<now, ttl_seconds, refresh_buffer, storage_up, users,
                 oauth_states, connections, hist>>

\* The orders in which a SELECT may return the rows of S.
Orders(S) ==
  {q \in [1..Cardinality(S) -> S] : \A i, j \in DOMAIN q : i # j => q[i] # q[j]}

\* refresh_expiring_tokens: the awaited get_expiring_connections, then the
\* loop up to its first await.
RefreshExpiringSelect(p) ==
  /\ Free(p)
  /\ storage_up
  /\ \E order \in Orders(get_expiring_connections(now + refresh_buffer)) :
       SetProc(p, sweep_continue(
                  [Idle EXCEPT !.op = "refresh_expiring_tokens",
                               !.queue = [i \in DOMAIN order |-> connections[order[i]]]]))
  /\ UNCHANGED <<now, ttl_seconds, refresh_buffer, storage_up, users,
                 oauth_states, connections, hist>>

\* refresh_expiring_tokens: the awaited deactivate_connection in the
\* except TokenError branch, then the loop goes on.
RefreshExpiringDeactivate(p) ==
  /\ pr[p].pc = "sw_deactivate"
  /\ storage_up
  /\ connections' = deactivate_connection(pr[p].conn[1].id)
  /\ hist' = [hist EXCEPT !.sweep_deactivated =
                 @ \cup {<<pr[p].conn[1].id, pr[p].g.rt>>}]
  /\ SetProc(p, sweep_continue([pr[p] EXCEPT !.writes = @ + 1]))
  /\ UNCHANGED <<now, ttl_seconds, refresh_buffer, storage_up, users, oauth_states>>

\* _refresh_token: the awaited refresh_access_token, then the encryptions.
RefreshProvider(p, answer, access, refresh, expires_in) ==
  /\ pr[p].pc = "rf_provider"
  /\ LET rec == [pr[p] EXCEPT !.calls = @ + 1, !.g.answer = answer] IN
     IF answer = "ok"
     THEN SetProc(p, [rec EXCEPT !.pc = "rf_update",
                        !.tok = <<[access_token |-> access, refresh_token |-> refresh,
                                   expires_at |-> now + expires_in]>>,
                        !.enc_a = Encrypt(access),
                        !.enc_r = IF refresh # "" THEN Encrypt(refresh) ELSE NoCipher])
     ELSE SetProc(p, refresh_raise(rec, refresh_error_code(answer)))
  /\ UNCHANGED <<now, ttl_seconds, refresh_buffer, storage_up, users,
                 oauth_states, connections, hist>>

\* _refresh_token: the awaited update_connection_tokens, which commits its
\* UPDATE and then reads the row back; a StorageError, from the UPDATE or
\* (reread_ok = FALSE) from the read after the commit, is wrapped by
\* except Exception into TokenError(refresh_failed).
RefreshUpdate(p, reread_ok) ==
  /\ pr[p].pc = "rf_update"
  /\ LET id == pr[p].conn[1].id IN
     IF ~storage_up \/ id \notin DOMAIN connections
     THEN SetProc(p, refresh_raise(pr[p], "refresh_failed")) /\ UNCHANGED connections
     ELSE /\ connections' = update_connection_tokens(id, pr[p].enc_a, pr[p].enc_r,
                                                     pr[p].tok[1].expires_at)
          /\ IF reread_ok
             THEN SetProc(p, refresh_return([pr[p] EXCEPT !.writes = @ + 1],
                                            connections'[id]))
             ELSE SetProc(p, refresh_raise([pr[p] EXCEPT !.writes = @ + 1],
                                           "refresh_failed"))
  /\ UNCHANGED <<now, ttl_seconds, refresh_buffer, storage_up, users,
                 oauth_states, hist>>

\* ------------------------------------------------------- environment
\* The storage backend goes away, or comes back.
StorageOutage ==
  /\ storage_up' = ~storage_up
  /\ UNCHANGED <<now, ttl_seconds, refresh_buffer, users, oauth_states,
                 connections, pr, hist>>

Tick ==
  /\ now < MaxTime
  /\ now' = now + 1
  /\ UNCHANGED <<ttl_seconds, refresh_buffer, storage_up, users, oauth_states,
                 connections, pr, hist>>

\* ------------------------------------------------------- specifications
NoHist == [next_state |-> 1, next_conn |-> 1, next_user |-> 1,
           issued |-> {}, attempted |-> {}, consumed |-> {},
           sweep_deactivated |-> {}, reauthorized |-> {},
           issued_to |-> {}, auth_urls |-> {},
           next_iv |-> 1, sealed |-> <<>>, disconnected |-> {}]

\* A database in which get_or_create_user has registered one user.
InitState ==
  /\ now = 0
  /\ ttl_seconds \in 0..MaxTtl
  /\ refresh_buffer = 0
  /\ storage_up = TRUE
  /\ users = (1 :> "u1")
  /\ oauth_states = <<>>
  /\ connections = <<>>
  /\ pr = [p \in Procs |-> Idle]
  /\ hist = [NoHist EXCEPT !.next_user = 2]

NextState ==
  \/ \E p \in Procs, uri \in RedirectUris : CreateStateBegin(p, 1, uri)
  \/ \E p \in Procs : CreateStateInsert(p)
  \/ \E p \in Procs, s \in 1..MaxStates : ValidateAndConsumeGet(p, s)
  \/ \E p \in Procs : ValidateAndConsumeDelete(p)
  \/ \E p \in Procs, s \in 1..MaxStates : ValidateStateGet(p, s)
  \/ \E p \in Procs : ValidateStateDelete(p)
  \/ \E p \in Procs : CleanupExpired(p)
  \/ Tick

SpecState == InitState /\ [][NextState]_vars

\* The state operations of server processes that share one Supabase
\* database.
NextSupabase ==
  \/ \E p \in Procs, uri \in RedirectUris : CreateStateBegin(p, 1, uri)
  \/ \E p \in Procs : CreateStateInsert(p)
  \/ \E p \in Procs, s \in 1..MaxStates : ValidateAndConsumeGet(p, s)
  \/ \E p \in Procs : ValidateAndConsumeDelete(p)
  \/ \E p \in Procs : CleanupExpiredCount(p)
  \/ \E p \in Procs : CleanupExpiredDelete(p)
  \/ Tick

SpecSupabase == InitState /\ [][NextSupabase]_vars

\* The database and the processes right after construction; the refresh
\* buffer is configuration.
InitWith(buffers) ==
  /\ now = 0
  /\ ttl_seconds = MaxTtl
  /\ refresh_buffer \in buffers
  /\ storage_up = TRUE
  /\ users = <<>>
  /\ oauth_states = <<>>
  /\ connections = <<>>
  /\ pr = [p \in Procs |-> Idle]
  /\ hist = NoHist

Init == InitWith({0})

ConnIds == 1..(Cardinality(ExtUsers) * Cardinality(Emails))

\* The process that serves the authorization flow, and the others.
Web == {1}
Workers == Procs \ Web

GetAuthUrlVia(P, U, Uris) ==
  \/ \E p \in P, ext \in U, uri \in Uris : GetAuthUrlSelectUser(p, ext, uri)
  \/ \E p \in P : GetAuthUrlInsertUser(p)
  \/ \E p \in P : CreateStateInsert(p)

GetAuthUrl(P, U) ==
  \/ \E p \in P, ext \in U : GetAuthUrlSelectUser(p, ext, config_redirect_uri)
  \/ \E p \in P : GetAuthUrlInsertUser(p)
  \/ \E p \in P : CreateStateInsert(p)

HandleCallback(P) ==
  \/ \E p \in P, s \in 1..MaxStates : HandleCallbackGetState(p, s)
  \/ \E p \in P : ValidateAndConsumeDelete(p)
  \/ \E p \in P, outcome \in {"ok", "AuthError", "Exception"},
        refresh \in RefreshTokens, e \in ExpiresIn :
        HandleCallbackExchange(p, outcome, GrantedAccess(pr[p].state), refresh, e)
  \/ \E p \in P, outcome \in {"ok", "AuthError", "TokenError"}, email \in Emails :
        HandleCallbackUserInfo(p, outcome, email)
  \/ \E p \in P : HandleCallbackLookup(p)
  \/ \E p \in P : HandleCallbackUpdate(p)
  \/ \E p \in P : HandleCallbackCreate(p)
  \/ \E p \in P : HandleCallbackGetUser(p)

Disconnect(P) ==
  \/ \E p \in P, c \in ConnIds, revoke \in BOOLEAN : DisconnectGet(p, c, revoke)
  \/ \E p \in P, outcome \in RevokeOutcomes : DisconnectRevoke(p, outcome)
  \/ \E p \in P : DisconnectDeactivate(p)

Refresh(P, R) ==
  \/ \E p \in P, answer \in ProviderAnswers, refresh \in R,
        e \in ExpiresIn :
        RefreshProvider(p, answer, RefreshedAccess, refresh, e)
  \/ \E p \in P, reread_ok \in BOOLEAN : RefreshUpdate(p, reread_ok)

GetValidToken(P) ==
  \/ \E p \in P, c \in ConnIds : GetValidTokenGet(p, c)
  \/ \E p \in P : GetValidTokenTouch(p)

GmailDisconnect(P) ==
  \/ \E p \in P, c \in ConnIds, revoke \in BOOLEAN : GmailDisconnectGet(p, c, revoke)
  \/ \E p \in P : GmailDisconnectCall(p)

RefreshToken(P) ==
  \E p \in P, c \in ConnIds : RefreshTokenGet(p, c)

RefreshExpiring(P) ==
  \/ \E p \in P : RefreshExpiringSelect(p)
  \/ \E p \in P : RefreshExpiringDeactivate(p)

\* Authorization flows of one user, run concurrently by every process.
NextFlow ==
  \/ GetAuthUrl(Procs, {"u1"})
  \/ HandleCallback(Procs)

SpecFlow == Init /\ [][NextFlow]_vars

\* The authorization flow of several external users, each with the
\* redirect_uri of its choice.
NextUsers ==
  \/ GetAuthUrlVia(Procs, ExtUsers, CallerRedirectUris)
  \/ HandleCallback(Procs)

SpecUsers == Init /\ [][NextUsers]_vars

\* One encryptor and the strings it is given, and decryption of what it
\* produced under its key or another.
NextEncryption ==
  \/ \E p \in Procs, plaintext \in Strings : EncryptCall(p, plaintext)
  \/ \E p \in Procs, i \in 1..MaxSealed, k \in {Key, OtherKey},
        how \in Alterations : DecryptCall(p, i, k, how)

SpecEncryption == Init /\ [][NextEncryption]_vars

\* PKCE instances made from the strings offered, and verify against their
\* challenges.
NextPkce ==
  \/ \E p \in Procs, v \in Verifiers : PkceNew(p, v)
  \/ \E p \in Procs, v \in Verifiers : PkceVerify(p, v)

SpecPkce == Init /\ [][NextPkce]_vars

\* The whole life of a connection: authorization and disconnection by one
\* process; token requests, forced refreshes and the background sweep by
\* the others; disconnect is called with revoke_google_access = False.
\* The refresh buffer is longer than the life of a token, so
\* every stored token is due for refresh.
\* Every callback consumes a state of its own, so the run holds at most
\* MaxStates connections.
LifeIds == 1..MaxStates

NextLife ==
  \/ GetAuthUrl(Web, {"u1"})
  \/ HandleCallback(Web)
  \/ \E p \in Web, c \in LifeIds : DisconnectGet(p, c, FALSE)
  \/ \E p \in Web : DisconnectDeactivate(p)
  \/ \E p \in Workers, c \in LifeIds : GetValidTokenGet(p, c)
  \/ \E p \in Workers : GetValidTokenTouch(p)
  \/ \E p \in Workers, c \in LifeIds : RefreshTokenGet(p, c)
  \/ RefreshExpiring(Workers)
  \/ Refresh(Workers, RefreshTokens)

SpecLife == InitWith({MaxBuffer + MaxExpiresIn}) /\ [][NextLife]_vars

\* The same flows over a storage backend that may fail any call.
NextFault ==
  \/ GetAuthUrl(Procs, {"u1"})
  \/ HandleCallback(Procs)
  \/ StorageOutage

SpecFault == Init /\ [][NextFault]_vars

\* Authorization, disconnection and re-authorization, with token requests
\* from the other processes running in between.
NextReauth ==
  \/ GetAuthUrl(Web, {"u1"})
  \/ HandleCallback(Web)
  \/ Disconnect(Web)
  \/ GetValidToken(Workers)

SpecReauth == Init /\ [][NextReauth]_vars

\* Authorization by one process; token requests and the background sweep
\* by the others, as time passes.
NextToken ==
  \/ GetAuthUrl(Web, {"u1"})
  \/ HandleCallback(Web)
  \/ GetValidToken(Workers)
  \/ RefreshExpiring(Workers)
  \/ Refresh(Workers, RefreshTokens)
  \/ Tick

SpecToken == InitWith(0..MaxBuffer) /\ [][NextToken]_vars

\* Every operation that writes a token to storage: authorization, token
\* requests, forced refreshes and the background sweep.
NextCipher ==
  \/ NextToken
  \/ RefreshToken(Workers)

SpecCipher == InitWith(0..MaxBuffer) /\ [][NextCipher]_vars

\* A database that already holds one user and two connections. The first
\* row's refresh token is one of the forms a row can hold: a provider token,
\* the empty string handle_callback stores when the provider sent none, or
\* a token sealed before the encryption key was changed.
StoredRefresh == {Encrypt("R1"), Encrypt(""), SealedElsewhere("R1")}

StoredConnection(id, gmail_address, refresh) ==
  [id |-> id, user_id |-> 1, gmail_address |-> gmail_address,
   access_token_encrypted |-> Encrypt(GrantedAccess(id)),
   refresh_token_encrypted |-> refresh,
   token_expires_at |-> MaxExpiresIn, scopes |-> DefaultScopes,
   is_active |-> TRUE, last_used_at |-> Never]

InitMaint ==
  /\ now = 0
  /\ ttl_seconds = MaxTtl
  /\ refresh_buffer = MaxBuffer
  /\ storage_up = TRUE
  /\ users = (1 :> "u1")
  /\ oauth_states = <<>>
  /\ \E refresh \in StoredRefresh :
       connections = (1 :> StoredConnection(1, "a@gmail.com", refresh)
                      @@ 2 :> StoredConnection(2, "b@gmail.com", Encrypt("R1")))
  /\ pr = [p \in Procs |-> Idle]
  /\ hist = [NoHist EXCEPT !.next_user = 2, !.next_conn = 3]

\* Disconnection by one process; token requests and forced refreshes by
\* the others. Every stored token is within the refresh buffer.
NextMaint ==
  \/ Disconnect(Web)
  \/ GmailDisconnect(Web)
  \/ GetValidToken(Workers)
  \/ RefreshToken(Workers)
  \/ Refresh(Workers, RotatedTokens)

SpecMaint == InitMaint /\ [][NextMaint]_vars

\* ------------------------------------------------------------ properties
\* The calls of validate_and_consume that have come to their outcome.
VcDone == {p \in Procs : pr[p].vc # ""}

\* C1: two validate_and_consume calls on the same state, one of which read
\* the row while it was valid, and neither of which met expiry, end as one
\* success and one InvalidState.
C1_ExactlyOneSuccess ==
  \A p, q \in VcDone :
    (p # q /\ pr[p].state = pr[q].state /\ pr[p].g.live
       /\ pr[q].vc # "state_expired")
    => (pr[p].vc = "ok" /\ pr[q].vc = "invalid_state")

\* C2: the first validate_and_consume on an issued, unexpired state succeeds;
\* once a call has succeeded the row is gone from storage; every call that
\* starts after a success has returned fails with InvalidState.
C2_SingleUse ==
  \A p \in VcDone :
    /\ (pr[p].g.first /\ pr[p].g.live) => pr[p].vc = "ok"
    /\ pr[p].vc = "ok" => pr[p].state \notin DOMAIN oauth_states
    /\ pr[p].g.after => pr[p].vc = "invalid_state"

C2_Witness ==
  \E p, q \in VcDone :
    /\ p # q /\ pr[p].state = pr[q].state
    /\ pr[p].g.first /\ pr[p].vc = "ok"
    /\ pr[q].g.after /\ pr[q].vc = "invalid_state"

\* C3: with a TTL of 0 the first validate_and_consume on a stored state fails
\* with StateExpired and leaves the row deleted.
C3_TtlZeroExpires ==
  \A p \in VcDone :
    (ttl_seconds = 0 /\ pr[p].g.first /\ pr[p].g.found)
    => (pr[p].vc = "state_expired" /\ pr[p].state \notin DOMAIN oauth_states)


\* The calls of an operation that have come to their outcome.
Ended(op) == {p \in Procs : pr[p].op = op /\ pr[p].pc = "done"}

\* C4: handle_callback ends by returning a CallbackResult whatever a step
\* did; when a step raised, the result has success = false, an error text
\* and no connection_id, and otherwise it has success = true.
C4_AlwaysReturnsResult ==
  \A p \in Ended("handle_callback") :
    /\ pr[p].result.kind = "return"
    /\ pr[p].result.value = "CallbackResult"
    /\ pr[p].g.failed => /\ ~pr[p].result.success
                         /\ pr[p].result.error # ""
                         /\ pr[p].result.connection_id = 0
    /\ ~pr[p].g.failed => pr[p].result.success

\* A callback whose storage failed after the state had been consumed.
C4_Witness ==
  \E p \in Ended("handle_callback") :
    /\ pr[p].vc = "ok"
    /\ pr[p].g.failed
    /\ pr[p].result.error = "connection_failed"

\* C5: the sweep deactivates every connection whose refresh was answered
\* invalid_grant, and deactivates none because of a transient failure.
C5_SweepDeactivatesOnlyRevoked ==
  /\ \A d \in hist.sweep_deactivated : d[2] # "refresh_failed"
  /\ \A p \in Ended("refresh_expiring_tokens") :
       \A c \in pr[p].g.revoked : ~connections[c].is_active

\* C6 as claimed: a get_valid_token on an active connection has made one
\* provider refresh call if the token was within the buffer, else none.
C6_OneRefreshWhenDue ==
  \A p \in Procs :
    pr[p].op = "get_valid_token" =>
      /\ pr[p].calls <= 1
      /\ (pr[p].pc = "done" /\ pr[p].g.found /\ ~pr[p].g.was_inactive)
           => pr[p].calls = IF pr[p].g.needed THEN 1 ELSE 0

\* C6 as amended: one provider refresh call if the token was within the
\* buffer and the stored refresh token decrypts to a non-empty string,
\* else none; never more than one.
C6_OneRefreshWhenDueAndRefreshable ==
  \A p \in Procs :
    pr[p].op = "get_valid_token" =>
      /\ pr[p].calls <= 1
      /\ (pr[p].pc = "done" /\ pr[p].g.found /\ ~pr[p].g.was_inactive)
           => pr[p].calls = IF pr[p].g.needed /\ pr[p].g.has_rt THEN 1 ELSE 0

C6_Witness ==
  \E p \in Ended("get_valid_token") :
    /\ pr[p].g.needed /\ pr[p].g.has_rt
    /\ pr[p].calls = 1
    /\ pr[p].result = Returned("ValidToken")

\* C7: get_valid_token on an absent connection ends at once with
\* ConnectionNotFound, on an inactive one with ConnectionInactive; neither
\* call has called the provider or written to storage.
C7_MissingOrInactiveHasNoEffect ==
  \A p \in Procs :
    pr[p].op = "get_valid_token" =>
      /\ ~pr[p].g.found =>
           /\ pr[p].pc = "done"
           /\ pr[p].result = Raised("ConnectionNotFoundError", "connection_not_found")
           /\ pr[p].calls = 0 /\ pr[p].writes = 0
      /\ pr[p].g.was_inactive =>
           /\ pr[p].pc = "done"
           /\ pr[p].result = Raised("ConnectionInactiveError", "connection_inactive")
           /\ pr[p].calls = 0 /\ pr[p].writes = 0

C7_Witness ==
  \E p \in Ended("get_valid_token") :
    /\ pr[p].g.was_inactive
    /\ pr[p].result.exc = "ConnectionInactiveError"
    /\ pr[p].cid \in DOMAIN connections

\* C8: a handle_callback that found a connection for its (user, address)
\* returns success with that connection's id, has replaced the row's
\* tokens and expiry by its own, and has added no row.
C8_ReauthUpdatesInPlace ==
  \A p \in Ended("handle_callback") :
    pr[p].g.pre # 0 =>
      /\ pr[p].result.success
      /\ pr[p].result.connection_id = pr[p].g.pre
      /\ pr[p].g.replaced
      /\ Cardinality({c \in DOMAIN connections :
                        /\ connections[c].user_id = connections[pr[p].g.pre].user_id
                        /\ connections[c].gmail_address = pr[p].email}) = 1

C8_Witness ==
  \E p \in Ended("handle_callback") :
    /\ pr[p].g.pre # 0
    /\ pr[p].result.success
    /\ pr[p].result.connection_id = pr[p].g.pre
    /\ connections[pr[p].g.pre].access_token_encrypted
         = Encrypt(GrantedAccess(pr[p].state))

\* C9: no two rows of gmail_connections have the same user_id and
\* gmail_address.
C9_UniqueUserAddress ==
  \A c, d \in DOMAIN connections :
    (/\ connections[c].user_id = connections[d].user_id
     /\ connections[c].gmail_address = connections[d].gmail_address) => c = d

\* Two callbacks raced to create the same pair and storage refused one.
C9_Witness ==
  \E p, q \in Ended("handle_callback") :
    /\ p # q
    /\ pr[p].result.success /\ pr[p].g.pre = 0
    /\ pr[q].result.error = "query_failed" /\ pr[q].g.pre = 0
    /\ pr[p].email = pr[q].email

C11_DisconnectSurvivesRevoke ==
  \A p \in Procs :
    (pr[p].op = "disconnect" /\ pr[p].g.found /\ pr[p].revoke) =>
      /\ pr[p].pc \in {"dc_revoke", "dc_deactivate", "done"}
      /\ pr[p].pc = "done" => /\ pr[p].result = Returned("True")
                              /\ ~connections[pr[p].cid].is_active

\* A disconnect whose revoke call raised, or whose stored refresh token
\* could not be decrypted, ended with True and the row inactive.
C11_Witness ==
  \E p \in Ended("disconnect") :
    /\ pr[p].revoke /\ pr[p].g.rt \in {"raises", "undecryptable"}
    /\ pr[p].result = Returned("True")
    /\ ~connections[pr[p].cid].is_active
\* The step in which p's _refresh_token wrote the refreshed tokens.
RefreshWrote(p) ==
  /\ pr[p].pc = "rf_update"
  /\ pr'[p].writes = pr[p].writes + 1

\* C12: the write of a refresh puts the new access token, sealed, and the
\* new expiry into the row; it puts the new refresh token there only if the
\* provider sent one and otherwise keeps the stored one; it changes no
\* other field of the row, no other row, and adds or removes none.
C12_RefreshFrame ==
  [][\A p \in Procs :
       RefreshWrote(p) =>
         LET id == pr[p].conn[1].id
             old == connections[id]
             new == connections'[id]
             tok == pr[p].tok[1]
         IN /\ DOMAIN connections' = DOMAIN connections
            /\ \A c \in DOMAIN connections \ {id} : connections'[c] = connections[c]
            /\ new.access_token_encrypted = Encrypt(tok.access_token)
            /\ new.token_expires_at = tok.expires_at
            /\ new.refresh_token_encrypted =
                 IF tok.refresh_token # "" THEN Encrypt(tok.refresh_token)
                 ELSE old.refresh_token_encrypted
            /\ new.user_id = old.user_id
            /\ new.gmail_address = old.gmail_address
            /\ new.scopes = old.scopes
            /\ new.is_active = old.is_active
            /\ new.last_used_at = old.last_used_at]_vars

\* A forced refresh returned: the row holds the refreshed access token
\* while its refresh token, which the provider did not rotate, is the one
\* stored before.
C12_Witness ==
  \E p \in Ended("refresh_token") :
    /\ pr[p].result = Returned("ValidToken")
    /\ connections[pr[p].cid].access_token_encrypted = Encrypt(RefreshedAccess)
    /\ connections[pr[p].cid].refresh_token_encrypted = Encrypt("R1")

\* The calls that went into _refresh_token: every refresh_token on a row
\* that exists, and get_valid_token on an active row within the buffer.
Refreshing ==
  {p \in Procs :
     \/ pr[p].op = "refresh_token" /\ pr[p].g.found
     \/ /\ pr[p].op = "get_valid_token" /\ pr[p].g.found
        /\ ~pr[p].g.was_inactive /\ pr[p].g.needed}

TokenErrorOf(code) == Raised("TokenError", code)

\* C13: a refresh ends with encryption_error, without a provider call, if
\* the stored refresh token cannot be decrypted; with needs_reauth, without
\* a provider call, if it decrypts to the empty string; with token_revoked
\* if the provider answered invalid_grant; with refresh_failed if the
\* provider call failed in any other way.
C13_RefreshOutcomes ==
  \A p \in Refreshing :
    /\ pr[p].g.undec =>
         /\ pr[p].pc = "done" /\ pr[p].calls = 0
         /\ pr[p].result = TokenErrorOf("encryption_error")
    /\ (~pr[p].g.undec /\ ~pr[p].g.has_rt) =>
         /\ pr[p].pc = "done" /\ pr[p].calls = 0
         /\ pr[p].result = TokenErrorOf("needs_reauth")
    /\ pr[p].g.answer = "invalid_grant" =>
         pr[p].pc = "done" /\ pr[p].result = TokenErrorOf("token_revoked")
    /\ pr[p].g.answer \in {"timeout", "http_5xx"} =>
         pr[p].pc = "done" /\ pr[p].result = TokenErrorOf("refresh_failed")
    /\ (pr[p].pc = "done" /\ pr[p].result.kind = "raise") =>
         /\ pr[p].result.exc = "TokenError"
         /\ pr[p].result.code \in {"encryption_error", "needs_reauth",
                                    "token_revoked", "refresh_failed"}

C13_Witness ==
  \E p \in Refreshing :
    /\ pr[p].g.answer = "invalid_grant"
    /\ pr[p].calls = 1
    /\ pr[p].result = TokenErrorOf("token_revoked")

\* C14: refresh_token on an absent connection ends with ConnectionNotFound
\* and on an inactive one with ConnectionInactive, without a provider call;
\* on an active one whose refresh token can be used it calls the provider
\* once, whatever token_expires_at is.
C14_ForcedRefreshErrorSurface ==
  \A p \in Procs :
    pr[p].op = "refresh_token" =>
      /\ ~pr[p].g.found =>
           /\ pr[p].result = Raised("ConnectionNotFoundError", "connection_not_found")
           /\ pr[p].calls = 0
      /\ pr[p].g.was_inactive =>
           /\ pr[p].result = Raised("ConnectionInactiveError", "connection_inactive")
           /\ pr[p].calls = 0
      /\ (pr[p].pc = "done" /\ pr[p].g.found /\ ~pr[p].g.was_inactive
           /\ pr[p].g.has_rt) => pr[p].calls = 1

\* The plaintexts the provider hands out.
ProviderTokens ==
  {GrantedAccess(st) : st \in 1..MaxStates} \cup {RefreshedAccess}
    \cup RefreshTokens \cup RotatedTokens

\* C15: both token fields of every stored connection are the cipher's
\* encrypt of a provider token (or of the empty string).
C15_OnlyCiphertextStored ==
  \A c \in DOMAIN connections :
    /\ connections[c].access_token_encrypted.k = Key
    /\ connections[c].access_token_encrypted.pt \in ProviderTokens
    /\ connections[c].refresh_token_encrypted.k = Key
    /\ connections[c].refresh_token_encrypted.pt \in ProviderTokens

\* A row written by handle_callback and then rewritten by a refresh.
C15_Witness ==
  \E c \in DOMAIN connections :
    /\ connections[c].access_token_encrypted.pt = RefreshedAccess
    /\ connections[c].access_token_encrypted.k = Key
    /\ connections[c].refresh_token_encrypted.pt = "R1"
    /\ \E p \in Ended("refresh_token") : pr[p].cid = c /\ pr[p].writes = 1

\* C16: a get_valid_token or refresh_token that ended with refresh_failed
\* has written nothing to storage.
C16_RefreshFailedWritesNothing ==
  \A p \in Ended("get_valid_token") \cup Ended("refresh_token") :
    pr[p].result = TokenErrorOf("refresh_failed") => pr[p].writes = 0

\* C17: of the TokenErrors a refresh raises, is_retriable() is true for
\* refresh_failed and false for token_revoked, needs_reauth and
\* encryption_error.
C17_OnlyRefreshFailedRetriable ==
  \A p \in Refreshing :
    (pr[p].pc = "done" /\ pr[p].result.exc = "TokenError") =>
      (is_retriable(pr[p].result.code) <=> pr[p].result.code = "refresh_failed")
C19_CleanupExactAndCounted ==
  \A p \in Ended("cleanup_expired") :
    /\ pr[p].g.exact
    /\ pr[p].count = Cardinality(pr[p].g.deleted)

\* C20: after gmail_disconnect has returned success the connection's two
\* encrypted tokens are no longer in storage.
C20_DisconnectDeletesTokens ==
  \A p \in Ended("gmail_disconnect") :
    pr[p].result = Returned("True") =>
      \/ pr[p].cid \notin DOMAIN connections
      \/ /\ connections[pr[p].cid].access_token_encrypted = NoCipher
         /\ connections[pr[p].cid].refresh_token_encrypted = NoCipher

\* ---------------------------------------------------------------- C21
\* C21: a connection created or updated by handle_callback(code, state)
\* belongs to the user for whom get_auth_url issued that state, whatever
\* other authorization attempts are pending or interleaved.
IssuedTo(state) == {i \in hist.issued_to : i.state = state}

C21_ConnectionOfIssuingUser ==
  \A p \in Procs :
    (pr[p].op = "handle_callback" /\ pr[p].cid # 0) =>
      /\ pr[p].cid \in DOMAIN connections
      /\ connections[pr[p].cid].user_id \in DOMAIN users
      /\ \A i \in IssuedTo(pr[p].state) :
           users[connections[pr[p].cid].user_id] = i.user

\* Two users, each with a state issued; the callback of one has succeeded
\* on an address the other user has connected too.
C21_Witness ==
  \E p \in Procs, c \in DOMAIN connections :
    /\ pr[p].op = "handle_callback" /\ pr[p].pc = "done"
    /\ pr[p].result.success
    /\ pr[p].cid # c /\ pr[p].cid \in DOMAIN connections
    /\ connections[c].gmail_address = connections[pr[p].cid].gmail_address
    /\ connections[c].user_id # connections[pr[p].cid].user_id

\* ---------------------------------------------------------------- C22
\* C22: the code_verifier and the redirect_uri that handle_callback sends
\* to the token exchange are the ones stored with the consumed state when
\* get_auth_url issued it, and the authorize URL returned for that state
\* carries the S256 challenge of that verifier.
C22_ExchangeBoundToIssue ==
  \A p \in Procs :
    (pr[p].op = "handle_callback" /\ pr[p].g.sent # <<>>) =>
      /\ IssuedTo(pr[p].state) # {}
      /\ \A i \in IssuedTo(pr[p].state) :
           /\ pr[p].g.sent[1].code_verifier = i.row.code_verifier
           /\ pr[p].g.sent[1].redirect_uri = i.row.redirect_uri
      /\ \E url \in hist.auth_urls :
           /\ url.state = pr[p].state
           /\ url.code_challenge = <<"S256", pr[p].g.sent[1].code_verifier>>
           /\ url.code_challenge_method = "S256"

\* Two states were issued with different redirect URIs, and the exchange
\* for the later one has been sent with the caller's own redirect_uri.
C22_Witness ==
  \E p \in Procs :
    /\ pr[p].op = "handle_callback" /\ pr[p].g.sent # <<>>
    /\ pr[p].g.sent[1].redirect_uri # config_redirect_uri
    /\ \E i \in hist.issued_to :
         i.state # pr[p].state /\ i.row.redirect_uri = config_redirect_uri

\* ---------------------------------------------------------------- C23
\* C23 as stated: for every string s, encrypt(s) returns a ciphertext,
\* decrypt of it under the same key returns s, and two encrypt calls on
\* the same s give two different ciphertexts.
C23_RoundTripEveryString ==
  /\ \A p \in Procs : pr[p].op = "encrypt" => pr[p].result.kind = "return"
  /\ \A p \in Procs :
       (pr[p].op = "decrypt" /\ pr[p].key = Key /\ pr[p].altered = "none") =>
         pr[p].result = Returned(pr[p].plaintext)
  /\ \A i, j \in 1..Len(hist.sealed) :
       i # j => hist.sealed[i].ciphertext # hist.sealed[j].ciphertext

\* C23: for every string s that UTF-8 can encode (including the empty
\* string), decrypt(encrypt(s)) = s under the same key and two encrypt
\* calls on the same s give two different ciphertexts; for a string with a
\* lone surrogate encrypt raises TokenError(encryption_error).
C23_RoundTripEncodable ==
  /\ \A p \in Procs :
       pr[p].op = "encrypt" =>
         IF \E i \in 1..Len(pr[p].plaintext) :
              pr[p].plaintext[i] >= 55296 /\ pr[p].plaintext[i] <= 57343
         THEN pr[p].result = Raised("TokenError", "encryption_error")
         ELSE pr[p].result.kind = "return"
  /\ \A p \in Procs :
       (pr[p].op = "decrypt" /\ pr[p].key = Key /\ pr[p].altered = "none") =>
         pr[p].result = Returned(pr[p].plaintext)
  /\ \A i, j \in 1..Len(hist.sealed) :
       i # j => hist.sealed[i].ciphertext # hist.sealed[j].ciphertext

\* One string of multi-byte characters was encrypted twice and one of the
\* ciphertexts was decrypted under the same key.
C23_Witness ==
  /\ Len(hist.sealed) = 2
  /\ hist.sealed[1].plaintext = hist.sealed[2].plaintext
  /\ \E p \in Procs :
       /\ pr[p].op = "decrypt" /\ pr[p].key = Key /\ pr[p].altered = "none"
       /\ pr[p].plaintext = hist.sealed[1].plaintext
       /\ Len(pr[p].plaintext) = MaxLen
       /\ \A i \in 1..MaxLen : pr[p].plaintext[i] > 127

\* ---------------------------------------------------------------- C24
\* C24: decrypt under a key other than the one that encrypted, or of a
\* ciphertext whose last five characters were altered, raises
\* TokenError(encryption_error) and returns no plaintext.
C24_WrongKeyOrTamperedFails ==
  \A p \in Procs :
    (pr[p].op = "decrypt" /\ (pr[p].key # Key \/ pr[p].altered # "none")) =>
      pr[p].result = Raised("TokenError", "encryption_error")

\* One decrypt ran under the other key and one on an altered ciphertext
\* under the right key.
C24_Witness ==
  /\ \E p \in Procs : /\ pr[p].op = "decrypt" /\ pr[p].key = OtherKey
                       /\ pr[p].altered = "none"
  /\ \E p \in Procs : /\ pr[p].op = "decrypt" /\ pr[p].key = Key
                       /\ pr[p].altered = "hmac"

\* ---------------------------------------------------------------- C25
\* C25: for every valid verifier v, PKCE.verify(v, challenge(v)) is true,
\* and PKCE.verify(v1, challenge(v)) is false for every string v1 other
\* than v.
C25_VerifyIffSameVerifier ==
  \A p \in Procs :
    pr[p].op = "verify" =>
      /\ Len(pr[p].code_verifier) \in MIN_VERIFIER_LENGTH..MAX_VERIFIER_LENGTH
      /\ pr[p].result.value = (pr[p].candidate = pr[p].code_verifier)

\* verify has answered true for a verifier of the greatest length, and
\* false for a valid verifier that differs from the instance's in its last
\* character only.
C25_Witness ==
  /\ \E p \in Procs : /\ pr[p].op = "verify" /\ pr[p].result.value
                       /\ Len(pr[p].code_verifier) = MAX_VERIFIER_LENGTH
  /\ \E p \in Procs :
       /\ pr[p].op = "verify" /\ ~pr[p].result.value
       /\ Len(pr[p].candidate) = Len(pr[p].code_verifier)
       /\ \A i \in 1..Len(pr[p].candidate) : pr[p].candidate[i] \in allowed
       /\ \A i \in 1..(Len(pr[p].candidate) - 1) :
            pr[p].candidate[i] = pr[p].code_verifier[i]

\* ---------------------------------------------------------------- C26
\* A handle_callback that consumed its state and then failed: at the code
\* exchange, at the identity fetch, at encryption or at a storage call.
FailedAfterConsume(p) ==
  /\ pr[p].op = "handle_callback" /\ pr[p].pc = "done"
  /\ pr[p].vc = "ok" /\ pr[p].g.failed

\* C26: once a handle_callback has failed after consuming its state, the
\* state record is gone, every handle_callback with that state that ends
\* from then on returns success = false, and no handle_callback with that
\* state creates or updates a connection from then on.
C26_FailedCallbackEndsState ==
  /\ [](\A p \in Procs :
          FailedAfterConsume(p) => pr[p].state \notin DOMAIN oauth_states)
  /\ [][\A p, q \in Procs :
          ( /\ FailedAfterConsume(p)
            /\ pr[q].op = "handle_callback" /\ pr[q].state = pr[p].state
            /\ pr'[q] # pr[q] /\ pr'[q].op = "handle_callback"
            /\ pr'[q].state = pr[q].state ) =>
              /\ connections' = connections
              /\ pr'[q].pc = "done" => ~pr'[q].result.success]_vars

\* ---------------------------------------------------------------- C27
\* The stored tokens of the row are no longer those of the copy.
TokensReplaced(copy) ==
  /\ copy.id \in DOMAIN connections
  /\ \/ connections[copy.id].access_token_encrypted # copy.access_token_encrypted
     \/ connections[copy.id].refresh_token_encrypted # copy.refresh_token_encrypted
     \/ connections[copy.id].token_expires_at # copy.token_expires_at

\* C27: refresh_expiring_tokens deactivates a connection only on the
\* basis of the tokens stored now: when the tokens of a connection were
\* replaced by another call after the sweep read it, the sweep's step
\* after the failed refresh of its copy leaves the connection active.
C27_SweepSparesReplacedTokens ==
  [][\A p \in Procs :
       ( /\ pr[p].op = "refresh_expiring_tokens" /\ pr[p].pc = "sw_deactivate"
         /\ pr'[p] # pr[p]
         /\ pr[p].g.answer # "ok"
         /\ TokensReplaced(pr[p].conn[1])
         /\ connections[pr[p].conn[1].id].is_active ) =>
           connections'[pr[p].conn[1].id].is_active]_vars

\* ---------------------------------------------------------------- C28
\* C28: two concurrent get_auth_url calls for one external user id that
\* no row holds yet both return an auth URL with a state, and exactly one
\* users row with that id exists afterwards.
C28_ConcurrentFirstAuthUrl ==
  \A p \in Procs :
    (pr[p].op = "get_auth_url" /\ pr[p].pc = "done") =>
      /\ pr[p].result = Returned("AuthUrlResult")
      /\ pr[p].state \in hist.issued
      /\ Cardinality(user_by_external(pr[p].user)) = 1

HoldsEmptyRefresh(row) ==
  row.refresh_token_encrypted.k = Key /\ row.refresh_token_encrypted.pt = ""

\* C30: when the code exchange answered without a refresh token, the write
\* of handle_callback, to a new row or over an existing one, leaves the
\* encryption of the empty string as the row's refresh token; and a
\* refresh of a row that holds it (by get_valid_token, refresh_token or
\* the sweep) fails with needs_reauth without a call to the provider.
C30_MissingRefreshTokenNeedsReauth ==
  /\ [][\A p \in Procs :
          ( /\ pr[p].pc \in {"hc_create", "hc_update"}
            /\ pr'[p].pc = "hc_get_user"
            /\ pr[p].tok[1].refresh_token = "" ) =>
              HoldsEmptyRefresh(connections'[pr'[p].cid])]_vars
  /\ [](\A p \in Procs :
          ( /\ pr[p].op \in {"get_valid_token", "refresh_token"}
            /\ pr[p].pc = "done"
            /\ pr[p].g.found /\ ~pr[p].g.undec /\ ~pr[p].g.has_rt
            /\ \/ pr[p].op = "refresh_token"
               \/ pr[p].g.needed /\ ~pr[p].g.was_inactive ) =>
              /\ pr[p].result = Raised("TokenError", "needs_reauth")
              /\ pr[p].calls = 0)
  /\ [](\A p \in Procs :
          ( /\ pr[p].op = "refresh_expiring_tokens" /\ pr[p].pc = "sw_deactivate"
            /\ HoldsEmptyRefresh(pr[p].conn[1]) ) =>
              pr[p].g.rt = "needs_reauth" /\ pr[p].g.answer = "")

\* A callback whose exchange brought no refresh token has written over a
\* row that held one, and a refresh_token call made after that write has
\* failed with needs_reauth.
C30_Witness ==
  \E p, q \in Procs :
    /\ pr[p].op = "handle_callback" /\ pr[p].pc = "hc_get_user"
    /\ pr[p].tok[1].refresh_token = ""
    /\ pr[p].existing # <<>>
    /\ pr[p].existing[1].refresh_token_encrypted.pt # ""
    /\ HoldsEmptyRefresh(connections[pr[p].cid])
    /\ pr[q].op = "refresh_token" /\ pr[q].pc = "done"
    /\ pr[q].cid = pr[p].cid
    /\ ~pr[q].g.has_rt
    /\ pr[q].result.code = "needs_reauth" /\ pr[q].calls = 0

====
